---------------------------- MODULE Spec2Model ----------------------------
(***************************************************************************)
(* A model of the JSTP Connection (lib/connection.js): one connection      *)
(* endpoint of either role, its callback registry, packet id allocation,   *)
(* handshake, packet dispatch, heartbeat and close handling.  The peer,    *)
(* the transport, the server's session creation and the application's      *)
(* handlers are the environment: they choose incoming packets and          *)
(* outcomes nondeterministically.                                          *)
(*                                                                         *)
(* Each handler of the source is an operator from the connection record c  *)
(* to the connection record after the handler has run; an action of Next   *)
(* applies one such operator to the current state.  Besides the fields of  *)
(* the object, the record carries what the handler did while it ran: sent  *)
(* (its transport writes), emitted (its events), rejected (the packets it  *)
(* reported with packetRejected), fired (the continuations it invoked),    *)
(* dispatched (its calls into the application and the server) and thrown   *)
(* (the exception it let escape).  These start empty in every step and are *)
(* not kept in the state: a property of one step is stated of the record   *)
(* the handler returns in a reachable state.                               *)
(***************************************************************************)
EXTENDS Integers, Sequences, FiniteSets, TLC

\* Bound: the number of packet ids one endpoint may allocate.
MaxPackets == 2
\* Bound: the number of startSession calls that may await their callback.
MaxSessions == 2
\* Bound: the number of '_timeout' listeners startHeartbeat may leave
\* registered at a time.
MaxListeners == 2

VARIABLES
  role,            \* "client" | "server": which of client / server was given
  nextPacketId,    \* this._nextPacketId
  callbacks,       \* this._callbacks: packet id -> continuation
  handshakeDone,   \* this.handshakeDone
  username,        \* this.username
  sessionId,       \* this.sessionId
  application,     \* this.application
  remoteProxies,   \* this.remoteProxies (the RemoteProxy objects, by interface)
  heartbeat,       \* this._heartbeatCallbackInstance is set
  timer,           \* the connection is enrolled in timers
  listeners,       \* number of '_timeout' listeners registered with once()
  ended,           \* transport.end() has been called
  closed,          \* the transport has emitted 'close'
  sessions,        \* server.startSession calls whose callback is outstanding
  invoked,         \* history: packet id -> the kinds of the packets on which
                   \*   its continuation was invoked, in order
  allocated,       \* history: the ids createPacket has handed out, in order
  originated,      \* history: the ids carried by originated packets, in order
  sessionOks,      \* history: startSession callbacks that reported success
  completions,     \* history: times the handshake completion step ran
  peerNextPacketId, \* the _nextPacketId of the connection at the other end
  peerAllocated,   \* history: the ids the other end's createPacket handed out
  input,           \* codec: the value given to parser.stringify
  text,            \* codec: the text parser.stringify returned
  output,          \* codec: what parser.parse made of the text
  stage,           \* codec: "idle" | "value" | "text" | "parsed"
  attempt          \* one connection attempt of newConnectAndInspectFn

vars == <<role, nextPacketId, callbacks, handshakeDone, username, sessionId,
          application, remoteProxies, heartbeat, timer, listeners, ended,
          closed, sessions, invoked, allocated,
          originated, sessionOks, completions, peerNextPacketId,
          peerAllocated, input, text, output, stage, attempt>>

Roles == {"client", "server"}

\* The connection object as a record of its fields, at the start of a step.
Self ==
  [role |-> role, nextPacketId |-> nextPacketId, callbacks |-> callbacks,
   handshakeDone |-> handshakeDone, username |-> username,
   sessionId |-> sessionId, application |-> application,
   remoteProxies |-> remoteProxies, heartbeat |-> heartbeat, timer |-> timer,
   listeners |-> listeners, ended |-> ended, closed |-> closed,
   sessions |-> sessions, invoked |-> invoked, allocated |-> allocated,
   originated |-> originated, sessionOks |-> sessionOks,
   completions |-> completions,
   sent |-> <<>>, emitted |-> <<>>, rejected |-> <<>>, fired |-> <<>>,
   dispatched |-> <<>>, thrown |-> ""]

\* function Connection(transport, server, client): the fields after construction.
Connection(r) ==
  [role |-> r, nextPacketId |-> 0, callbacks |-> <<>>,
   handshakeDone |-> FALSE, username |-> "null", sessionId |-> "null",
   application |-> "null", remoteProxies |-> {}, heartbeat |-> FALSE,
   timer |-> FALSE, listeners |-> 0, ended |-> FALSE, closed |-> FALSE,
   sessions |-> 0, invoked |-> <<>>, allocated |-> <<>>,
   originated |-> <<>>, sessionOks |-> 0, completions |-> 0,
   sent |-> <<>>, emitted |-> <<>>, rejected |-> <<>>, fired |-> <<>>,
   dispatched |-> <<>>, thrown |-> ""]

\* this._packetIdDelta: -1 for a server-side connection, 1 for a client-side one.
packetIdDelta(r) == IF r = "server" THEN -1 ELSE 1

\* server.applications: the names the server's registry resolves.
Applications == {"app"}

\* client.application: the application a client-side connection attaches.
ClientApplication == "jstp"

\* application.getMethods(interfaceName): the interfaces that have methods.
Interfaces == {"iface"}

(***************************************************************************)
(* Packets.  A packet is the parsed object the transport hands over: keys  *)
(* is Object.keys(packet) (the kind first, then the verb), id and target   *)
(* are the two elements of the header array (target "" when absent) and    *)
(* val is the value under the verb key ("" when absent or falsy).          *)
(***************************************************************************)
Packet(keys, id, target, val) ==
  [keys |-> keys, id |-> id, target |-> target, val |-> val]

\* JavaScript truthiness of a value of the model.
Truthy(v) == v # ""

\* packet.ok and packet.error as the handlers read them.
PacketOk(packet) ==
  IF Len(packet.keys) >= 2 /\ packet.keys[2] = "ok" THEN packet.val ELSE ""

PacketError(packet) ==
  IF Len(packet.keys) >= 2 /\ packet.keys[2] = "error" THEN packet.val ELSE ""

\* delete obj[key]
Delete(f, key) == [k \in DOMAIN f \ {key} |-> f[k]]

\* obj[key] = value
Put(f, key, value) ==
  [k \in DOMAIN f \cup {key} |-> IF k = key THEN value ELSE f[k]]

\* A continuation stored in this._callbacks: which method registered it and
\* what its closure captured.
Continuation(kind, arg) == [kind |-> kind, arg |-> arg]

(***************************************************************************)
(* Sending, events, ids.                                                   *)
(***************************************************************************)
\* this.emit(name, ...) and this.server.emit(name, ...)
Emit(c, name, arg) ==
  [c EXCEPT !.emitted = Append(@, [name |-> name, arg |-> arg])]

\* Connection.prototype._send
Send(c, packet) == [c EXCEPT !.sent = Append(@, packet)]

\* Mutant of createPacket: the id counter is advanced by 1 whatever the role
\* (line 237 with a constant in place of this._packetIdDelta).
createPacketUpwards(c, kind, target, verb, args) ==
  [packet |-> Packet(IF Truthy(verb) THEN <<kind, verb>> ELSE <<kind>>,
                     c.nextPacketId, target,
                     IF Truthy(verb) THEN args ELSE ""),
   c |-> [c EXCEPT !.nextPacketId = @ + 1,
                   !.allocated = Append(@, c.nextPacketId)]]

\* Connection.prototype.createPacket: the packet and the connection with its
\* id counter advanced.
createPacket(c, kind, target, verb, args) ==
  [packet |-> Packet(IF Truthy(verb) THEN <<kind, verb>> ELSE <<kind>>,
                     c.nextPacketId, target,
                     IF Truthy(verb) THEN args ELSE ""),
   c |-> [c EXCEPT !.nextPacketId = @ + packetIdDelta(c.role),
                   !.allocated = Append(@, c.nextPacketId)]]

\* The bookkeeping shared by the methods that originate a request: the
\* continuation is stored under the packet's id and the packet is sent.
Register(r, cont) ==
  Send([r.c EXCEPT !.callbacks = Put(@, r.packet.id, cont),
                   !.invoked = Put(@, r.packet.id, <<>>),
                   !.originated = Append(@, r.packet.id)],
       r.packet)

\* Connection.prototype.callMethod (with a caller's callback)
callMethod(c, interfaceName, methodName) ==
  Register(createPacket(c, "call", interfaceName, methodName, "args"),
           Continuation("call", methodName))

\* Mutant of callback: the id of the new packet is not overwritten with the
\* id of the call (line 105 left out).
callbackOwnId(c, packetId, error, result) ==
  LET r == IF Truthy(error)
             THEN createPacket(c, "callback", "", "error", error)
             ELSE createPacket(c, "callback", "", "ok", result)
  IN Send(r.c, r.packet)

\* Connection.prototype.callback
callback(c, packetId, error, result) ==
  LET r == IF Truthy(error)
             THEN createPacket(c, "callback", "", "error", error)
             ELSE createPacket(c, "callback", "", "ok", result)
  IN Send(r.c, [r.packet EXCEPT !.id = packetId])

\* Connection.prototype.emitRemoteEvent
emitRemoteEvent(c, interfaceName, eventName) ==
  LET r == createPacket(c, "event", interfaceName, eventName, "args")
  IN Send([r.c EXCEPT !.originated = Append(@, r.packet.id)], r.packet)

\* Connection.prototype.handshake: login is "" for an anonymous handshake.
handshake(c, appName, login) ==
  Register(IF Truthy(login)
             THEN createPacket(c, "handshake", appName, "login", "cred")
             ELSE createPacket(c, "handshake", appName, "", ""),
           Continuation("handshake", login))

\* Connection.prototype.inspectInterface
inspectInterface(c, interfaceName) ==
  Register(createPacket(c, "inspect", interfaceName, "", ""),
           Continuation("inspect", interfaceName))

\* Connection.prototype.ping
ping(c) ==
  Register(createPacket(c, "ping", "", "", ""), Continuation("ping", ""))

\* Connection.prototype.pong
pong(c, packetId) == Send(c, Packet(<<"pong">>, packetId, "", ""))

(***************************************************************************)
(* Heartbeat and close.                                                    *)
(***************************************************************************)
\* The empty packet '{}'.
HeartbeatPacket == Packet(<<>>, 0, "", "")

\* Connection.prototype._heartbeatCallback with Connection.prototype.setTimeout
heartbeatCallback(c) ==
  [Send(c, HeartbeatPacket) EXCEPT !.timer = TRUE, !.listeners = @ + 1]

\* Connection.prototype.startHeartbeat
startHeartbeat(c) == heartbeatCallback([c EXCEPT !.heartbeat = TRUE])

\* Connection.prototype.stopHeartbeat with Connection.prototype.clearTimeout
stopHeartbeat(c) ==
  IF c.heartbeat
    THEN [c EXCEPT !.timer = FALSE,
                   !.listeners = IF @ > 0 THEN @ - 1 ELSE 0,
                   !.heartbeat = FALSE]
    ELSE c

\* Connection.prototype._onTimeout: emit('_timeout') removes every listener
\* registered with once and runs it; each is a bound _heartbeatCallback,
\* which sends '{}' and registers the current instance again.
onTimeout(c) ==
  [c EXCEPT !.sent = @ \o [i \in 1..c.listeners |-> HeartbeatPacket],
            !.timer = c.listeners > 0]

\* Connection.prototype.close
close(c) == [stopHeartbeat(c) EXCEPT !.ended = TRUE]

\* Connection.prototype._end: hasPacket says whether a final packet is given.
end(c, hasPacket, packet) ==
  LET s == stopHeartbeat(c)
  IN IF hasPacket THEN [Send(s, packet) EXCEPT !.ended = TRUE]
                  ELSE [s EXCEPT !.ended = TRUE]

\* Connection.prototype._onSocketClose
onSocketClose(c) ==
  LET e == Emit(stopHeartbeat(c), "close", "")
  IN [(IF c.role = "server" THEN Emit(e, "disconnect", "") ELSE e)
        EXCEPT !.closed = TRUE]

\* Connection.prototype._onSocketError
onSocketError(c) == Emit(end(c, FALSE, HeartbeatPacket), "error", "socket")

\* Connection.prototype._rejectPacket
rejectPacket(c, packet, fatal) ==
  LET e == [Emit(c, "packetRejected", "") EXCEPT
              !.rejected = Append(@, packet)]
  IN IF fatal THEN end(e, FALSE, HeartbeatPacket) ELSE e

(***************************************************************************)
(* Incoming packets.                                                       *)
(***************************************************************************)
\* new RemoteProxy(this, interfaceName, methods): every construction makes a
\* new object, told apart here by the id of the inspect request whose
\* response constructed it.
RemoteProxy(packetId, interfaceName, methods) ==
  [interface |-> interfaceName, methods |-> methods, id |-> packetId]

\* this.remoteProxies[interfaceName] = proxy
StoreProxy(proxies, proxy) ==
  {q \in proxies : q.interface # proxy.interface} \cup {proxy}

\* A continuation taken from this._callbacks is called with (error, value)
\* by the handler of a packet of kind by: the closures that handshake (lines
\* 134-142) and inspectInterface (lines 156-172) store update the
\* connection; those of callMethod and ping are the caller's.
Invoke(c, by, packetId, cont, error, value) ==
  LET f == [c EXCEPT
              !.fired = Append(@, [id |-> packetId, kind |-> cont.kind,
                                   error |-> error, value |-> value]),
              !.invoked = Put(@, packetId, Append(@[packetId], by))]
  IN CASE cont.kind = "handshake" ->
            [f EXCEPT !.username = IF Truthy(cont.arg) /\ ~Truthy(error)
                                     THEN cont.arg ELSE @,
                      !.sessionId = IF Truthy(value) THEN value
                                                     ELSE "undefined"]
       [] cont.kind = "inspect" ->
            IF Truthy(error) THEN f
            ELSE [f EXCEPT !.remoteProxies =
                             StoreProxy(@, RemoteProxy(packetId, cont.arg,
                                                       value))]
       [] OTHER -> f

\* An exception escapes the handler: what it did before stays done.
Throw(c, error) == [c EXCEPT !.thrown = error]

\* Connection.prototype._handshakeError
handshakeError(c, error) ==
  LET r == createPacket(c, "handshake", "", "error", error)
  IN end(r.c, TRUE, r.packet)

\* Mutant of processHandshakeRequest: the application is attached and the
\* session started without the test of lines 378-381 that the registry
\* resolved the name.
processHandshakeRequestUnresolved(c, packet) ==
  IF c.role # "server" THEN handshakeError(c, "NotAServer")
  ELSE [c EXCEPT !.application = packet.target,
                 !.sessions = @ + 1,
                 !.dispatched =
                   Append(@, [op |-> "startSession", id |-> packet.id,
                              target |-> packet.target,
                              verb |-> IF Len(packet.keys) >= 2
                                         THEN packet.keys[2] ELSE "anonymous",
                              val |-> packet.val])]

\* Connection.prototype._processHandshakeRequest
processHandshakeRequest(c, packet) ==
  IF c.role # "server" THEN handshakeError(c, "NotAServer")
  ELSE IF packet.target \notin Applications
    THEN handshakeError(c, "AppNotFound")
  ELSE LET authStrategy == IF Len(packet.keys) >= 2 THEN packet.keys[2]
                                                   ELSE "anonymous"
           call == [op |-> "startSession", id |-> packet.id,
                    target |-> packet.target, verb |-> authStrategy,
                    val |-> packet.val]
       IN [c EXCEPT !.application = packet.target,
                    !.sessions = @ + 1,
                    !.dispatched = Append(@, call)]

\* Mutant of onSessionCreated: the error test of lines 399-402 is left out.
onSessionCreatedUnchecked(c, error, name, session) ==
  LET d == [c EXCEPT !.username = name, !.handshakeDone = TRUE,
                     !.sessionId = session, !.completions = @ + 1]
      r == createPacket(Emit(Emit(d, "client", session), "connect", ""),
                        "handshake", "", "ok", session)
  IN Send(r.c, r.packet)

\* Connection.prototype._onSessionCreated
onSessionCreated(c, error, name, session) ==
  IF Truthy(error) THEN handshakeError(c, "AuthFailed")
  ELSE LET d == [c EXCEPT !.username = name, !.handshakeDone = TRUE,
                          !.sessionId = session, !.completions = @ + 1]
           r == createPacket(Emit(Emit(d, "client", session), "connect", ""),
                             "handshake", "", "ok", session)
       IN Send(r.c, r.packet)

\* Connection.prototype._processHandshakeResponse
processHandshakeResponse(c, packet) ==
  LET packetId == packet.id
      has == packetId \in DOMAIN c.callbacks
      r == IF has THEN c ELSE rejectPacket(c, packet, FALSE)
  IN IF Truthy(PacketOk(packet))
       THEN LET d == [r EXCEPT !.callbacks = Delete(@, packetId),
                               !.handshakeDone = TRUE]
            IN IF c.role # "client" THEN Throw(d, "TypeError")
               ELSE LET a == [d EXCEPT !.application = ClientApplication,
                                       !.completions = @ + 1]
                    IN IF has THEN Invoke(a, "handshake", packetId,
                                          c.callbacks[packetId],
                                          "", PacketOk(packet))
                              ELSE Throw(a, "TypeError")
     ELSE IF Truthy(PacketError(packet))
       THEN LET d == [r EXCEPT !.callbacks = Delete(@, packetId)]
            IN IF has THEN Invoke(d, "handshake", packetId,
                                  c.callbacks[packetId],
                                  PacketError(packet), "")
                      ELSE Throw(d, "TypeError")
     ELSE rejectPacket(r, packet, TRUE)

\* Mutant of processHandshakePacket: the handshakeDone test of lines 353-356
\* is left out, so that a handshake packet is processed again.
processHandshakePacketAgain(c, packet) ==
  IF Truthy(packet.target) THEN processHandshakeRequest(c, packet)
  ELSE processHandshakeResponse(c, packet)

\* Connection.prototype._processHandshakePacket
processHandshakePacket(c, packet) ==
  IF c.handshakeDone THEN rejectPacket(c, packet, TRUE)
  ELSE IF Truthy(packet.target) THEN processHandshakeRequest(c, packet)
  ELSE processHandshakeResponse(c, packet)

\* What application.callMethod may do with the callback it is given before
\* it returns: call it with a result, call it with an error, throw, or call
\* it with a result and then throw.
HandlerOutcomes == {"ok", "error", "throw", "okThenThrow"}

\* Connection.prototype._remoteCallbackWrapper
remoteCallbackWrapper(c, packetId, error, result) ==
  callback(c, packetId, error, result)

\* Connection.prototype._processCallPacket
processCallPacket(c, packet, outcome) ==
  LET packetId == packet.id
      methodName == IF Len(packet.keys) >= 2 THEN packet.keys[2] ELSE ""
      args == IF Truthy(methodName) THEN packet.val ELSE ""
      call == [op |-> "callMethod", id |-> packetId, target |-> packet.target,
               verb |-> methodName, val |-> args]
      d == [c EXCEPT !.dispatched = Append(@, call)]
  IN IF ~Truthy(args)
       THEN remoteCallbackWrapper(c, packetId, "InvalidSignature", "")
     ELSE IF c.application = "null"
       THEN Throw(remoteCallbackWrapper(c, packetId, "InternalApiError", ""),
                  "TypeError")
     ELSE CASE outcome = "ok" ->
                 remoteCallbackWrapper(d, packetId, "", "result")
            [] outcome = "error" ->
                 remoteCallbackWrapper(d, packetId, "MethodNotFound", "")
            [] outcome = "throw" ->
                 Throw(remoteCallbackWrapper(d, packetId,
                                             "InternalApiError", ""), "Error")
            [] OTHER ->
                 Throw(remoteCallbackWrapper(
                         remoteCallbackWrapper(d, packetId, "", "result"),
                         packetId, "InternalApiError", ""), "Error")

\* Mutant of processCallbackPacket: the entry is not deleted (line 484) before
\* the continuation is called.
processCallbackPacketKeeping(c, packet) ==
  LET packetId == packet.id
      has == packetId \in DOMAIN c.callbacks
  IN IF has /\ Truthy(PacketOk(packet))
       THEN Invoke(c, "callback", packetId, c.callbacks[packetId],
                   "", PacketOk(packet))
     ELSE IF has /\ Truthy(PacketError(packet))
       THEN Invoke(c, "callback", packetId, c.callbacks[packetId],
                   PacketError(packet), "")
     ELSE rejectPacket(c, packet, FALSE)

\* Connection.prototype._processCallbackPacket
processCallbackPacket(c, packet) ==
  LET packetId == packet.id
      has == packetId \in DOMAIN c.callbacks
      d == [c EXCEPT !.callbacks = Delete(@, packetId)]
  IN IF has /\ Truthy(PacketOk(packet))
       THEN Invoke(d, "callback", packetId, c.callbacks[packetId],
                   "", PacketOk(packet))
     ELSE IF has /\ Truthy(PacketError(packet))
       THEN Invoke(d, "callback", packetId, c.callbacks[packetId],
                   PacketError(packet), "")
     ELSE rejectPacket(IF has THEN d ELSE c, packet, FALSE)

\* Connection.prototype._processEventPacket
processEventPacket(c, packet) ==
  LET e == Emit(c, "event", packet.target)
  IN IF \E proxy \in c.remoteProxies : proxy.interface = packet.target
       THEN Emit(e, "proxyEvent", packet.target)
       ELSE e

\* Connection.prototype._processInspectPacket
processInspectPacket(c, packet) ==
  LET call == [op |-> "getMethods", id |-> packet.id,
               target |-> packet.target, verb |-> "", val |-> ""]
      d == [c EXCEPT !.dispatched = Append(@, call)]
  IN IF c.application = "null" THEN Throw(c, "TypeError")
     ELSE IF packet.target \in Interfaces
       THEN callback(d, packet.id, "", "methods")
     ELSE callback(d, packet.id, "InterfaceNotFound", "")

\* Connection.prototype._processPingPacket
processPingPacket(c, packet) == pong(c, packet.id)

\* Mutant of processPongPacket: the entry is not deleted (line 541) before
\* the continuation is called.
processPongPacketKeeping(c, packet) ==
  LET packetId == packet.id
  IN IF packetId \in DOMAIN c.callbacks
       THEN Invoke(c, "pong", packetId, c.callbacks[packetId], "", "")
       ELSE c

\* Connection.prototype._processPongPacket
processPongPacket(c, packet) ==
  LET packetId == packet.id
  IN IF packetId \in DOMAIN c.callbacks
       THEN Invoke([c EXCEPT !.callbacks = Delete(@, packetId)], "pong",
                   packetId, c.callbacks[packetId], "", "")
       ELSE c

\* PACKET_HANDLERS
PacketHandlers ==
  {"handshake", "call", "callback", "event", "inspect", "ping", "pong"}

\* handler.call(this, packet, keys) for the handler PACKET_HANDLERS[kind]
Dispatch(c, kind, packet, outcome) ==
  CASE kind = "handshake" -> processHandshakePacket(c, packet)
    [] kind = "call" -> processCallPacket(c, packet, outcome)
    [] kind = "callback" -> processCallbackPacket(c, packet)
    [] kind = "event" -> processEventPacket(c, packet)
    [] kind = "inspect" -> processInspectPacket(c, packet)
    [] kind = "ping" -> processPingPacket(c, packet)
    [] kind = "pong" -> processPongPacket(c, packet)

\* Mutant of processPacket: the handshakeDone test of lines 323-326 is left
\* out, so that any packet is dispatched before the handshake.
processPacketUnguarded(c, packet, outcome) ==
  IF Len(packet.keys) = 0 THEN c
  ELSE LET kind == packet.keys[1]
       IN IF kind \in PacketHandlers
            THEN Dispatch(c, kind, packet, outcome)
            ELSE rejectPacket(c, packet, FALSE)

\* Mutant of processPacket: the empty packet is not recognised as a
\* heartbeat and is rejected as a packet of no known kind.
processPacketNoHeartbeat(c, packet, outcome) ==
  LET kind == IF Len(packet.keys) = 0 THEN "" ELSE packet.keys[1]
  IN IF ~c.handshakeDone /\ kind # "handshake"
       THEN rejectPacket(c, packet, TRUE)
     ELSE IF kind \in PacketHandlers
       THEN Dispatch(c, kind, packet, outcome)
     ELSE rejectPacket(c, packet, FALSE)

\* Connection.prototype._processPacket
processPacket(c, packet, outcome) ==
  IF Len(packet.keys) = 0 THEN c
  ELSE LET kind == packet.keys[1]
       IN IF ~c.handshakeDone /\ kind # "handshake"
            THEN rejectPacket(c, packet, TRUE)
          ELSE IF kind \in PacketHandlers
            THEN Dispatch(c, kind, packet, outcome)
          ELSE rejectPacket(c, packet, FALSE)

(***************************************************************************)
(* The environment's inputs.                                               *)
(***************************************************************************)
\* The ids a response may carry: those this endpoint can have allocated, and
\* one it never allocates.
ResponseIds(r) ==
  {k * packetIdDelta(r) : k \in 0..(MaxPackets - 1)} \cup {-packetIdDelta(r)}

\* The ids the peer's requests carry: the first two of the peer's sequence.
RequestIds(r) == {0, -packetIdDelta(r)}

\* The packets the transport may hand to a connection of role r.
Packets(r) ==
  {HeartbeatPacket}
    \cup {Packet(<<"handshake">>, 0, t, "") : t \in {"app", "nope"}}
    \cup {Packet(<<"handshake", "login">>, 0, "app", "cred")}
    \cup {Packet(<<"handshake">>, id, "", "") : id \in ResponseIds(r)}
    \cup {Packet(<<"handshake", "ok">>, id, "", v) :
            id \in ResponseIds(r), v \in {"", "S1"}}
    \cup {Packet(<<"handshake", "error">>, id, "", "AuthFailed") :
            id \in ResponseIds(r)}
    \cup {Packet(<<"call", "method">>, -packetIdDelta(r), "iface", v) :
            v \in {"", "args"}}
    \cup {Packet(<<"callback">>, id, "", "") : id \in ResponseIds(r)}
    \cup {Packet(<<"callback", "ok">>, id, "", "result") :
            id \in ResponseIds(r)}
    \cup {Packet(<<"callback", "error">>, id, "", "MethodNotFound") :
            id \in ResponseIds(r)}
    \cup {Packet(<<"event", "ev">>, -packetIdDelta(r), "iface", "args")}
    \cup {Packet(<<"inspect">>, -packetIdDelta(r), t, "") :
            t \in {"iface", "nope"}}
    \cup {Packet(<<"ping">>, id, "", "") : id \in RequestIds(r)}
    \cup {Packet(<<"pong">>, id, "", "") : id \in ResponseIds(r)}
    \cup {Packet(<<"unknown">>, 0, "", "")}

\* The state after a step: the connection's fields are those of r.
Commit(r) ==
  /\ Len(r.allocated) <= MaxPackets
  /\ r.sessions <= MaxSessions
  /\ role' = r.role
  /\ nextPacketId' = r.nextPacketId
  /\ callbacks' = r.callbacks
  /\ handshakeDone' = r.handshakeDone
  /\ username' = r.username
  /\ sessionId' = r.sessionId
  /\ application' = r.application
  /\ remoteProxies' = r.remoteProxies
  /\ heartbeat' = r.heartbeat
  /\ timer' = r.timer
  /\ listeners' = r.listeners
  /\ ended' = r.ended
  /\ closed' = r.closed
  /\ sessions' = r.sessions
  /\ invoked' = r.invoked
  /\ allocated' = r.allocated
  /\ originated' = r.originated
  /\ sessionOks' = r.sessionOks
  /\ completions' = r.completions
  /\ UNCHANGED <<peerNextPacketId, peerAllocated, input, text, output, stage,
                 attempt>>

(***************************************************************************)
(* The record serialization codec (parser.stringify and parser.parse).     *)
(* Text is a sequence of characters.  A JavaScript value is a record: type *)
(* is its kind, b the boolean, n the number, s the characters of a string, *)
(* items the elements of an array or the values of an object and keys the  *)
(* keys of an object, in insertion order.                                  *)
(***************************************************************************)
JsValue(type, b, n, s, items, keys) ==
  [type |-> type, b |-> b, n |-> n, s |-> s, items |-> items, keys |-> keys]

JsNull == JsValue("null", FALSE, 0, <<>>, <<>>, <<>>)
JsUndefined == JsValue("undefined", FALSE, 0, <<>>, <<>>, <<>>)
JsBoolean(b) == JsValue("boolean", b, 0, <<>>, <<>>, <<>>)
JsNumber(n) == JsValue("number", FALSE, n, <<>>, <<>>, <<>>)
JsString(s) == JsValue("string", FALSE, 0, s, <<>>, <<>>)
JsArray(items) == JsValue("array", FALSE, 0, <<>>, items, <<>>)
JsObject(keys, items) == JsValue("object", FALSE, 0, <<>>, items, keys)

\* What parse gives when the script does not compile or does not evaluate:
\* the exception vm throws.
JsError == JsValue("SyntaxError", FALSE, 0, <<>>, <<>>, <<>>)

\* The text of the words the codec writes and reads.
TextUndefined == <<"u", "n", "d", "e", "f", "i", "n", "e", "d">>
TextNull == <<"n", "u", "l", "l">>
TextTrue == <<"t", "r", "u", "e">>
TextFalse == <<"f", "a", "l", "s", "e">>

DigitChars == <<"0", "1", "2", "3", "4", "5", "6", "7", "8", "9">>
Digits == {DigitChars[i] : i \in DOMAIN DigitChars}
DigitValue(ch) == (CHOOSE i \in DOMAIN DigitChars : DigitChars[i] = ch) - 1
Letters ==
  {"a", "b", "c", "d", "e", "f", "g", "h", "i", "j", "k", "l", "m", "n", "o",
   "p", "q", "r", "s", "t", "u", "v", "w", "x", "y", "z"}

\* n + '' for an integer n: its decimal digits, with a sign when negative.
RECURSIVE naturalToString(_)
naturalToString(n) ==
  IF n < 10 THEN <<DigitChars[n + 1]>>
  ELSE naturalToString(n \div 10) \o <<DigitChars[(n % 10) + 1]>>

numberToString(n) ==
  IF n < 0 THEN <<"-">> \o naturalToString(-n) ELSE naturalToString(n)

\* s.replace(/'/g, '\\\''): a backslash is put before every single quote and
\* every other character, a backslash too, is copied.
RECURSIVE escapeQuotes(_)
escapeQuotes(s) ==
  IF s = <<>> THEN <<>>
  ELSE (IF Head(s) = "'" THEN <<"\\", "'">> ELSE <<Head(s)>>)
         \o escapeQuotes(Tail(s))

\* Array.prototype.join(',')
RECURSIVE join(_)
join(parts) ==
  IF parts = <<>> THEN <<>>
  ELSE IF Len(parts) = 1 THEN parts[1]
  ELSE parts[1] \o <<",">> \o join(Tail(parts))

\* serialize(object, index, array) of createSerializer with the types of
\* parser.stringify; inArray says whether the array argument was given, as
\* it is when Array.prototype.map calls serialize.
RECURSIVE serialize(_, _)
serialize(object, inArray) ==
  CASE object.type = "array" ->
         <<"[">>
           \o join([i \in DOMAIN object.items |->
                      serialize(object.items[i], TRUE)])
           \o <<"]">>
    [] object.type \in {"null", "undefined"} ->
         IF inArray THEN <<>> ELSE TextUndefined
    [] object.type = "number" -> numberToString(object.n)
    [] object.type = "string" -> <<"'">> \o escapeQuotes(object.s) \o <<"'">>
    [] object.type = "boolean" -> IF object.b THEN TextTrue ELSE TextFalse
    [] object.type = "object" ->
         LET repr(i) == serialize(object.items[i], FALSE)
             kept == SelectSeq([i \in DOMAIN object.keys |-> i],
                               LAMBDA i : repr(i) # TextUndefined)
         IN <<"{">>
              \o join([j \in DOMAIN kept |->
                         object.keys[kept[j]] \o <<":">> \o repr(kept[j])])
              \o <<"}">>

\* parser.stringify
stringify(object) == serialize(object, FALSE)

(***************************************************************************)
(* parser.parse evaluates '(' + str + ')' as a script.  The operators      *)
(* below read the expressions the serializer can write: the words          *)
(* undefined, null, true and false, decimal integers, single-quoted string *)
(* literals with escapes, array literals with elisions and object literals *)
(* whose keys are identifier names.  A result is whether an expression was *)
(* read, its value and the position after it.                              *)
(***************************************************************************)
Parsed(value, next) == [ok |-> TRUE, value |-> value, next |-> next]
NotParsed == [ok |-> FALSE, value |-> JsError, next |-> 0]

\* The character a backslash followed by ch stands for in a string literal.
unescape(ch) ==
  CASE ch = "b" -> "\\b"
    [] ch = "f" -> "\\f"
    [] ch = "n" -> "\\n"
    [] ch = "r" -> "\\r"
    [] ch = "t" -> "\\t"
    [] ch = "v" -> "\\v"
    [] OTHER -> ch

\* The rest of a string literal, from position i, after its opening quote.
RECURSIVE parseString(_, _, _)
parseString(str, i, acc) ==
  IF i > Len(str) THEN NotParsed
  ELSE IF str[i] = "'" THEN Parsed(JsString(acc), i + 1)
  ELSE IF str[i] = "\\"
    THEN IF i + 1 > Len(str) \/ str[i + 1] \in Digits \cup {"u", "x"}
           THEN NotParsed
           ELSE parseString(str, i + 2, Append(acc, unescape(str[i + 1])))
  ELSE parseString(str, i + 1, Append(acc, str[i]))

\* The digits from position i, with the number read so far.
RECURSIVE parseDigits(_, _, _)
parseDigits(str, i, n) ==
  IF i <= Len(str) /\ str[i] \in Digits
    THEN parseDigits(str, i + 1, 10 * n + DigitValue(str[i]))
    ELSE Parsed(JsNumber(n), i)

\* The identifier name from position i, with the characters read so far.
RECURSIVE parseName(_, _, _)
parseName(str, i, acc) ==
  IF i <= Len(str) /\ str[i] \in Letters \cup Digits
    THEN parseName(str, i + 1, Append(acc, str[i]))
    ELSE [ok |-> acc # <<>>, name |-> acc, next |-> i]

RECURSIVE parseValue(_, _)
RECURSIVE parseElements(_, _, _)
RECURSIVE parseMembers(_, _, _, _)

\* The rest of an array literal, from position i: a comma where an element
\* may start is an elision and leaves a hole, which reads as undefined.
parseElements(str, i, acc) ==
  IF i > Len(str) THEN NotParsed
  ELSE IF str[i] = "]" THEN Parsed(JsArray(acc), i + 1)
  ELSE IF str[i] = "," THEN parseElements(str, i + 1, Append(acc, JsUndefined))
  ELSE LET e == parseValue(str, i)
       IN IF ~e.ok \/ e.next > Len(str) THEN NotParsed
          ELSE IF str[e.next] = ","
            THEN parseElements(str, e.next + 1, Append(acc, e.value))
          ELSE IF str[e.next] = "]"
            THEN Parsed(JsArray(Append(acc, e.value)), e.next + 1)
          ELSE NotParsed

\* The rest of an object literal, from position i.
parseMembers(str, i, keys, items) ==
  IF i > Len(str) THEN NotParsed
  ELSE IF str[i] = "}" THEN Parsed(JsObject(keys, items), i + 1)
  ELSE LET k == parseName(str, i, <<>>)
       IN IF ~k.ok \/ k.next > Len(str) \/ str[k.next] # ":" THEN NotParsed
          ELSE LET e == parseValue(str, k.next + 1)
               IN IF ~e.ok \/ e.next > Len(str) THEN NotParsed
                  ELSE IF str[e.next] = ","
                    THEN parseMembers(str, e.next + 1, Append(keys, k.name),
                                      Append(items, e.value))
                  ELSE IF str[e.next] = "}"
                    THEN Parsed(JsObject(Append(keys, k.name),
                                         Append(items, e.value)),
                                e.next + 1)
                  ELSE NotParsed

\* The expression that starts at position i.
parseValue(str, i) ==
  IF i > Len(str) THEN NotParsed
  ELSE CASE str[i] = "'" -> parseString(str, i + 1, <<>>)
         [] str[i] = "[" -> parseElements(str, i + 1, <<>>)
         [] str[i] = "{" -> parseMembers(str, i + 1, <<>>, <<>>)
         [] str[i] \in Digits -> parseDigits(str, i, 0)
         [] str[i] = "-" ->
              IF i + 1 <= Len(str) /\ str[i + 1] \in Digits
                THEN LET d == parseDigits(str, i + 1, 0)
                     IN Parsed(JsNumber(-d.value.n), d.next)
                ELSE NotParsed
         [] str[i] \in Letters ->
              LET w == parseName(str, i, <<>>)
              IN CASE w.name = TextUndefined -> Parsed(JsUndefined, w.next)
                   [] w.name = TextNull -> Parsed(JsNull, w.next)
                   [] w.name = TextTrue -> Parsed(JsBoolean(TRUE), w.next)
                   [] w.name = TextFalse -> Parsed(JsBoolean(FALSE), w.next)
                   [] OTHER -> NotParsed
         [] OTHER -> NotParsed

\* parser.parse: the value of the whole text, or the exception.
parse(str) ==
  LET e == parseValue(str, 1)
  IN IF e.ok /\ e.next = Len(str) + 1 THEN e.value ELSE JsError

(***************************************************************************)
(* Connecting and inspecting (newConnectAndInspectFn of                    *)
(* transport-common.js).  One connection attempt is a record: the          *)
(* interfaces asked for, whether the completion callback throws when it is *)
(* called, the state of the promise made for each interface and of         *)
(* Promise.all over them, which of the then and catch handlers have run,   *)
(* and calls, the invocations of the completion callback in order.         *)
(***************************************************************************)
\* The state before the function newConnectAndInspectFn returns is called.
Attempt(interfaces, throws) ==
  [phase |-> "connecting", interfaces |-> interfaces, throws |-> throws,
   promises |-> <<>>, all |-> "none", reason |-> "",
   thenRan |-> FALSE, catchRan |-> FALSE, calls |-> <<>>]

NoAttempt == [Attempt(<<>>, FALSE) EXCEPT !.phase = "idle"]

\* callback(error), callback(error, connection), callback(null, connection,
\* api): one invocation of the completion callback with nargs arguments.
complete(a, nargs, error, api) ==
  [a EXCEPT !.calls = Append(@, [nargs |-> nargs, error |-> error,
                                 api |-> api])]

\* The callback given to connect (lines 68-91) is called: with an error the
\* completion callback gets it; otherwise inspectInterface is called for
\* every name, each with a promise, and Promise.all is made over them.
connected(a, error) ==
  IF Truthy(error) THEN [complete(a, 1, error, {}) EXCEPT !.phase = "failed"]
  ELSE [a EXCEPT !.phase = "inspecting",
                 !.promises = [i \in DOMAIN a.interfaces |-> "pending"],
                 !.all = IF a.interfaces = <<>> THEN "fulfilled"
                                                ELSE "pending"]

\* The callback given to inspectInterface for the i-th name (lines 73-79) is
\* called: its promise is rejected or resolved, and Promise.all is rejected
\* by the first rejection and fulfilled when every promise is resolved.
inspected(a, i, error) ==
  LET promises == [a.promises EXCEPT
                     ![i] = IF Truthy(error) THEN "rejected" ELSE "resolved"]
  IN [a EXCEPT
        !.promises = promises,
        !.all = IF a.all # "pending" THEN a.all
                ELSE IF Truthy(error) THEN "rejected"
                ELSE IF \A j \in DOMAIN promises : promises[j] = "resolved"
                  THEN "fulfilled"
                ELSE "pending",
        !.reason = IF a.all = "pending" /\ Truthy(error) THEN error ELSE @]

\* proxies.reduce(...): each name is given the proxy of its promise, a later
\* entry for the same name replacing an earlier one.
api(interfaces) ==
  {[name |-> interfaces[i], proxy |-> i] :
     i \in {j \in DOMAIN interfaces :
              \A k \in DOMAIN interfaces :
                interfaces[k] = interfaces[j] => k <= j}}

\* The handler given to then (lines 80-87).
thenHandler(a) ==
  [complete(a, 3, "", api(a.interfaces)) EXCEPT !.thenRan = TRUE]

\* The promise then returns is rejected when Promise.all is, and when the
\* then handler throws, which it does when the completion callback throws.
chainRejected(a) == a.all = "rejected" \/ (a.thenRan /\ a.throws)

\* The handler given to catch (lines 88-90).
catchHandler(a) ==
  [complete(a, 2, IF a.all = "rejected" THEN a.reason ELSE "Thrown", {})
     EXCEPT !.catchRan = TRUE]

\* The caller uses the connection, and the transport delivers packets, while
\* the transport has not been ended.
Usable == ~ended /\ ~closed

\* The variables of the connection are the fields of the record c.
Constructed(c) ==
  /\ role = c.role
  /\ nextPacketId = c.nextPacketId
  /\ callbacks = c.callbacks
  /\ handshakeDone = c.handshakeDone
  /\ username = c.username
  /\ sessionId = c.sessionId
  /\ application = c.application
  /\ remoteProxies = c.remoteProxies
  /\ heartbeat = c.heartbeat
  /\ timer = c.timer
  /\ listeners = c.listeners
  /\ ended = c.ended
  /\ closed = c.closed
  /\ sessions = c.sessions
  /\ invoked = c.invoked
  /\ allocated = c.allocated
  /\ originated = c.originated
  /\ sessionOks = c.sessionOks
  /\ completions = c.completions

Init ==
  /\ \E r \in Roles : Constructed(Connection(r))
  /\ peerNextPacketId = 0
  /\ peerAllocated = <<>>
  /\ input = JsNull
  /\ text = <<>>
  /\ output = JsUndefined
  /\ stage = "idle"
  /\ attempt = NoAttempt

CallMethod ==
  /\ Usable
  /\ Commit(callMethod(Self, "iface", "method"))

EmitRemoteEvent ==
  /\ Usable
  /\ Commit(emitRemoteEvent(Self, "iface", "ev"))

\* The connect policy of a client calls handshake (transport-common.js, line 51).
Handshake ==
  /\ Usable
  /\ role = "client"
  /\ \E login \in {"", "user"} : Commit(handshake(Self, "app", login))

InspectInterface ==
  /\ Usable
  /\ Commit(inspectInterface(Self, "iface"))

Ping ==
  /\ Usable
  /\ Commit(ping(Self))

Close ==
  /\ ~closed
  /\ Commit(close(Self))

\* The outcomes to consider for a packet: only a call reaches a handler.
Outcomes(packet) ==
  IF Len(packet.keys) > 0 /\ packet.keys[1] = "call" THEN HandlerOutcomes
                                                     ELSE {"ok"}

\* The transport emits 'packet'.
ReceivePacket ==
  /\ Usable
  /\ \E packet \in Packets(role) :
       \E outcome \in Outcomes(packet) :
         Commit(processPacket(Self, packet, outcome))

\* The transport emits 'error'.
SocketError ==
  /\ ~closed
  /\ Commit(onSocketError(Self))

\* The transport emits 'close'.
SocketClose ==
  /\ ~closed
  /\ Commit(onSocketClose(Self))

\* server.startSession calls back, with an error or with a user name and a
\* session id; the connection may have been closed in the meantime.
SessionCreated ==
  /\ sessions > 0
  /\ \E error \in {"", "AuthFailed"} :
       LET c == [Self EXCEPT !.sessions = @ - 1,
                             !.sessionOks = IF Truthy(error) THEN @ ELSE @ + 1]
       IN Commit(onSessionCreated(c, error, "user", "S1"))

Next ==
  \/ CallMethod
  \/ EmitRemoteEvent
  \/ Handshake
  \/ InspectInterface
  \/ Ping
  \/ Close
  \/ ReceivePacket
  \/ SocketError
  \/ SocketClose
  \/ SessionCreated

Spec == Init /\ [][Next]_vars

\* The role of the connection at the other end.
PeerRole(r) == IF r = "server" THEN "client" ELSE "server"

\* The connection at the other end, a Connection of the other role, creates
\* a packet with its own createPacket.
PeerCreatePacket ==
  LET peer == [Connection(PeerRole(role)) EXCEPT
                 !.nextPacketId = peerNextPacketId,
                 !.allocated = peerAllocated]
      r == createPacket(peer, "ping", "", "", "")
  IN /\ Len(peerAllocated) < MaxPackets
     /\ peerNextPacketId' = r.c.nextPacketId
     /\ peerAllocated' = r.c.allocated
     /\ UNCHANGED <<role, nextPacketId, callbacks, handshakeDone, username,
                    sessionId, application, remoteProxies, heartbeat, timer,
                    listeners, ended, closed, sessions, invoked, allocated,
                    originated, sessionOks, completions, input, text, output,
                    stage, attempt>>

\* Both ends of the connection: this endpoint and the peer's id counter.
NextPair == Next \/ PeerCreatePacket

SpecPair == Init /\ [][NextPair]_vars

StartHeartbeat ==
  /\ Usable
  /\ listeners < MaxListeners
  /\ Commit(startHeartbeat(Self))

StopHeartbeat == Commit(stopHeartbeat(Self))

\* The timer enrolled by setTimeout expires.
Timeout ==
  /\ timer
  /\ Commit(onTimeout(Self))

\* The connection with its heartbeat.
NextHeartbeat == Next \/ StartHeartbeat \/ StopHeartbeat \/ Timeout

SpecHeartbeat == Init /\ [][NextHeartbeat]_vars

(***************************************************************************)
(* The codec on its own: a value is serialized and the text parsed back.   *)
(***************************************************************************)
\* Bound: the length of the strings given to the codec.
MaxStringLen == 2
\* Bound: the length of the arrays given to the codec.
MaxArrayLen == 2

\* The characters of those strings: a letter, the single quote, the backslash.
StringChars == {"a", "'", "\\"}

Strings == UNION {[1..n -> StringChars] : n \in 0..MaxStringLen}

Scalars ==
  {JsNull, JsBoolean(TRUE), JsBoolean(FALSE)}
    \cup {JsNumber(n) : n \in {-12, 0, 7}}
    \cup {JsString(s) : s \in Strings}

\* The values put into arrays and mappings.
Elements ==
  {JsNull, JsBoolean(TRUE), JsNumber(7), JsString(<<"a">>),
   JsString(<<"'">>)}

Arrays ==
  {JsArray(items) : items \in UNION {[1..n -> Elements] : n \in 0..MaxArrayLen}}

\* The keys of mappings: an identifier name and a key that is not one.
Keys == {<<"k">>, <<"a", "-", "b">>}

Objects ==
  {JsObject(<<>>, <<>>)}
    \cup {JsObject(<<key>>, <<item>>) :
            key \in Keys, item \in Elements \cup {JsArray(<<JsNumber(7)>>)}}

\* The values of the record format given to the codec.
Values == Scalars \cup Arrays \cup Objects

InitCodec ==
  /\ Constructed(Connection("client"))
  /\ peerNextPacketId = 0
  /\ peerAllocated = <<>>
  /\ input \in Values
  /\ text = <<>>
  /\ output = JsUndefined
  /\ stage = "value"
  /\ attempt = NoAttempt

Stringify ==
  /\ stage = "value"
  /\ text' = stringify(input)
  /\ stage' = "text"
  /\ UNCHANGED <<role, nextPacketId, callbacks, handshakeDone, username,
                 sessionId, application, remoteProxies, heartbeat, timer,
                 listeners, ended, closed, sessions, invoked, allocated,
                 originated, sessionOks, completions, peerNextPacketId,
                 peerAllocated, input, output, attempt>>

Parse ==
  /\ stage = "text"
  /\ output' = parse(text)
  /\ stage' = "parsed"
  /\ UNCHANGED <<role, nextPacketId, callbacks, handshakeDone, username,
                 sessionId, application, remoteProxies, heartbeat, timer,
                 listeners, ended, closed, sessions, invoked, allocated,
                 originated, sessionOks, completions, peerNextPacketId,
                 peerAllocated, input, text, attempt>>

NextCodec == Stringify \/ Parse

SpecCodec == InitCodec /\ [][NextCodec]_vars

(***************************************************************************)
(* One connection attempt made with newConnectAndInspectFn.                *)
(***************************************************************************)
\* Bound: the number of interfaces asked for.
MaxInterfaces == 2

\* The names asked for.
InterfaceNames == {"iface", "other"}

InitConnect ==
  /\ Constructed(Connection("client"))
  /\ peerNextPacketId = 0
  /\ peerAllocated = <<>>
  /\ input = JsNull
  /\ text = <<>>
  /\ output = JsUndefined
  /\ stage = "idle"
  /\ \E n \in 0..MaxInterfaces : \E interfaces \in [1..n -> InterfaceNames] :
       \E throws \in BOOLEAN : attempt = Attempt(interfaces, throws)

\* The variables a step of the attempt leaves alone.
notAttempt ==
  <<role, nextPacketId, callbacks, handshakeDone, username, sessionId,
    application, remoteProxies, heartbeat, timer, listeners, ended, closed,
    sessions, invoked, allocated, originated, sessionOks, completions,
    peerNextPacketId, peerAllocated, input, text, output, stage>>

\* connect calls back, with an error or with the connection.
Connected ==
  /\ attempt.phase = "connecting"
  /\ \E error \in {"", "ConnectError"} : attempt' = connected(attempt, error)
  /\ UNCHANGED notAttempt

\* The connection calls the continuation of one inspectInterface, once.
Inspected ==
  /\ attempt.phase = "inspecting"
  /\ \E i \in DOMAIN attempt.promises :
       /\ attempt.promises[i] = "pending"
       /\ \E error \in {"", "InspectError"} :
            attempt' = inspected(attempt, i, error)
  /\ UNCHANGED notAttempt

\* The job of the then handler runs once Promise.all is fulfilled.
ThenHandler ==
  /\ attempt.all = "fulfilled"
  /\ ~attempt.thenRan
  /\ attempt' = thenHandler(attempt)
  /\ UNCHANGED notAttempt

\* The job of the catch handler runs once the promise then returned is
\* rejected.
CatchHandler ==
  /\ chainRejected(attempt)
  /\ ~attempt.catchRan
  /\ attempt' = catchHandler(attempt)
  /\ UNCHANGED notAttempt

NextConnect == Connected \/ Inspected \/ ThenHandler \/ CatchHandler

SpecConnect == InitConnect /\ [][NextConnect]_vars

(***************************************************************************)
(* Properties.  A property of what one handler does is stated of the       *)
(* record the handler returns when applied to the current state (Self),    *)
(* for every packet the transport may deliver in that state.               *)
(***************************************************************************)
\* The event a rejected packet is reported with.
PacketRejected == [name |-> "packetRejected", arg |-> ""]

\* r is the connection c after a fatal rejection of packet and nothing else:
\* one packetRejected event, the transport ended, the heartbeat stopped.
FatallyRejected(c, r, packet) ==
  /\ ~r.heartbeat /\ ~r.timer
  /\ [r EXCEPT !.heartbeat = c.heartbeat, !.timer = c.timer,
               !.listeners = c.listeners]
       = [c EXCEPT !.rejected = <<packet>>, !.emitted = <<PacketRejected>>,
                   !.ended = TRUE]

\* C1: while handshakeDone is false, a non-empty packet whose first key is
\* not handshake is reported with packetRejected, the transport is ended, and
\* nothing else happens: no handler or continuation runs, nothing is sent and
\* no other field of the connection changes.
NonHandshakeRejectedBeforeHandshake ==
  ~handshakeDone =>
    \A packet \in Packets(role) : \A outcome \in Outcomes(packet) :
      (Len(packet.keys) > 0 /\ packet.keys[1] # "handshake") =>
        FatallyRejected(Self, processPacket(Self, packet, outcome), packet)

\* C1, witness: a server-side connection that has not completed the
\* handshake, with a continuation pending and a session creation
\* outstanding, on which a call packet ends the transport.
NonHandshakeRejectedWitness ==
  /\ role = "server" /\ ~handshakeDone /\ Usable
  /\ DOMAIN callbacks # {} /\ sessions > 0
  /\ processPacket(Self, Packet(<<"call", "method">>, 1, "iface", "args"),
                   "ok").ended

\* C2: once handshakeDone is true, a handshake packet of either shape is
\* reported with packetRejected and the transport is ended; startSession is
\* not called, no continuation is invoked or removed, nothing is sent.
HandshakeRejectedAfterHandshake ==
  handshakeDone =>
    \A packet \in Packets(role) :
      (Len(packet.keys) > 0 /\ packet.keys[1] = "handshake") =>
        FatallyRejected(Self, processPacket(Self, packet, "ok"), packet)

\* C2, witness: an open server-side connection with a continuation pending
\* under id -1 and a second session creation outstanding, on which a
\* handshake response carrying that id ends the transport.
HandshakeRejectedWitness ==
  /\ role = "server" /\ handshakeDone /\ Usable
  /\ -1 \in DOMAIN callbacks /\ sessions > 0
  /\ processPacket(Self, Packet(<<"handshake", "ok">>, -1, "", "S1"),
                   "ok").ended

\* C3: a server-side connection has handshakeDone only after startSession
\* has reported success, and before that it dispatches no call or inspect
\* packet to an application.
ServerOpensOnlyBySession ==
  (role = "server" /\ sessionOks = 0) =>
    /\ ~handshakeDone
    /\ \A packet \in Packets(role) : \A outcome \in Outcomes(packet) :
         (Len(packet.keys) > 0 /\ packet.keys[1] \in {"call", "inspect"}) =>
           processPacket(Self, packet, outcome).dispatched = <<>>

\* C4: the handshake completion step runs at most once in a run.
HandshakeCompletesOnce == completions <= 1

\* C5: a continuation is invoked at most once; while it is in the registry
\* it has not been invoked; no two requests are registered under the same
\* id; and a packet invokes at most one continuation, the one registered
\* under the packet's own id, which it removes and to which it passes its
\* own ok or error value.
ContinuationInvokedOnceByItsResponse ==
  /\ \A id \in DOMAIN invoked : Len(invoked[id]) <= 1
  /\ \A id \in DOMAIN callbacks : id \in DOMAIN invoked /\ invoked[id] = <<>>
  /\ \A i, j \in DOMAIN originated : i # j => originated[i] # originated[j]
  /\ \A packet \in Packets(role) : \A outcome \in Outcomes(packet) :
       LET r == processPacket(Self, packet, outcome)
       IN /\ Len(r.fired) <= 1
          /\ \A i \in DOMAIN r.fired :
               /\ packet.id \in DOMAIN callbacks
               /\ packet.id \notin DOMAIN r.callbacks
               /\ r.fired[i] = [id |-> packet.id,
                                kind |-> callbacks[packet.id].kind,
                                error |-> PacketError(packet),
                                value |-> PacketOk(packet)]

\* C5, witness: two requests were sent, the response to the later one has
\* been delivered and the earlier one is still pending.
ResponsesOutOfOrderWitness ==
  \E i, j \in DOMAIN originated :
    /\ i < j
    /\ originated[i] \in DOMAIN callbacks
    /\ originated[j] \in DOMAIN invoked
    /\ Len(invoked[originated[j]]) = 1

\* C6: once the transport has closed, every continuation that was registered
\* has been invoked exactly once and the registry is empty.
PendingContinuationsFailOnClose ==
  closed =>
    /\ DOMAIN callbacks = {}
    /\ \A id \in DOMAIN invoked : Len(invoked[id]) = 1

\* The sign of an id: -1, 0 or 1.
Sign(id) == IF id > 0 THEN 1 ELSE IF id < 0 THEN -1 ELSE 0

\* The ids in ids (in allocation order) are those of a connection of role r:
\* non-negative and increasing for a client, non-positive and decreasing for
\* a server.
Diverging(r, ids) ==
  /\ \A i \in DOMAIN ids :
       IF r = "client" THEN ids[i] >= 0 ELSE ids[i] <= 0
  /\ \A i, j \in DOMAIN ids :
       i < j => IF r = "client" THEN ids[i] < ids[j] ELSE ids[i] > ids[j]

\* C7, as claimed: the ids of each end diverge from zero without repetition,
\* and no id of one end has the sign of an id of the other end.
IdsDivergeAndSignIdentifiesPeer ==
  /\ Diverging(role, allocated)
  /\ Diverging(PeerRole(role), peerAllocated)
  /\ \A i \in DOMAIN allocated : \A j \in DOMAIN peerAllocated :
       Sign(allocated[i]) # Sign(peerAllocated[j])

\* C7, amended: the ids of each end diverge from zero without repetition;
\* the first id of either end is 0, and no non-zero id of one end has the
\* sign of an id of the other end.
IdsDivergeAndSignIdentifiesPeerExceptZero ==
  /\ Diverging(role, allocated)
  /\ Diverging(PeerRole(role), peerAllocated)
  /\ Len(allocated) > 0 => allocated[1] = 0
  /\ Len(peerAllocated) > 0 => peerAllocated[1] = 0
  /\ \A i \in DOMAIN allocated : \A j \in DOMAIN peerAllocated :
       Sign(allocated[i]) = Sign(peerAllocated[j]) =>
         allocated[i] = 0 /\ peerAllocated[j] = 0

\* C7, witness: both ends have allocated their id 0 and a non-zero id.
BothEndsAllocatedWitness ==
  Len(allocated) >= 2 /\ Len(peerAllocated) >= 2

\* C8: the k-th packet a connection originates carries the k-th id of its
\* sequence, k - 1 for a client and -(k - 1) for a server.
OriginatedIdsConsecutive ==
  \A k \in DOMAIN originated :
    originated[k] = (k - 1) * packetIdDelta(role)

\* C9: after the handshake a ping packet is answered with one pong carrying
\* its id and has no other effect; a pong whose id has a continuation
\* registered by ping invokes it once (without arguments), removes it and
\* does nothing else; a pong whose id has no continuation, as a duplicate
\* has, does nothing at all; so a continuation is invoked by at most one
\* pong.
PingPongCorrelation ==
  /\ \A id \in DOMAIN invoked :
       Cardinality({i \in DOMAIN invoked[id] : invoked[id][i] = "pong"}) <= 1
  /\ handshakeDone =>
       \A packet \in Packets(role) :
         LET r == processPacket(Self, packet, "ok")
             id == packet.id
         IN /\ packet.keys = <<"ping">> =>
                 r = [Self EXCEPT !.sent = <<Packet(<<"pong">>, id, "", "")>>]
            /\ (packet.keys = <<"pong">> /\ id \notin DOMAIN callbacks) =>
                 r = Self
            /\ (/\ packet.keys = <<"pong">>
                /\ id \in DOMAIN callbacks
                /\ callbacks[id].kind = "ping") =>
                 r = [Self EXCEPT
                        !.callbacks = Delete(callbacks, id),
                        !.invoked = Put(invoked, id, <<"pong">>),
                        !.fired = <<[id |-> id, kind |-> "ping",
                                     error |-> "", value |-> ""]>>]

\* C9, witness: on an open connection a pong has invoked the continuation
\* registered under its id, so that a further pong with this id is a
\* duplicate, and the connection has not been ended.
PongDeliveredWitness ==
  /\ handshakeDone /\ Usable
  /\ \E id \in DOMAIN invoked :
       invoked[id] = <<"pong">> /\ id \notin DOMAIN callbacks

\* C10: the empty packet changes nothing, before or after the handshake: no
\* field of the connection changes, no continuation is invoked, no event is
\* emitted, nothing is sent and the transport is not ended.
EmptyPacketIsNoOp == processPacket(Self, HeartbeatPacket, "ok") = Self

\* C10, witness: a connection that has not completed the handshake (any
\* other packet kind but handshake would end it), with a continuation
\* pending, receives the empty packet and stays as it is.
EmptyPacketBeforeHandshakeWitness ==
  /\ ~handshakeDone /\ Usable /\ DOMAIN callbacks # {}
  /\ HeartbeatPacket \in Packets(role)
  /\ processPacket(Self, HeartbeatPacket, "ok") = Self

\* C11: startHeartbeat sends one empty packet at once, every expiry of the
\* timer sends exactly one empty packet, and after stopHeartbeat, close, a
\* fatal rejection, a transport error or a transport close no timer is
\* enrolled, so that no heartbeat is sent until startHeartbeat is called.
HeartbeatOncePerExpiry ==
  /\ startHeartbeat(Self).sent = <<HeartbeatPacket>>
  /\ startHeartbeat(Self).timer
  /\ timer => onTimeout(Self).sent = <<HeartbeatPacket>>
  /\ ~heartbeat => ~timer
  /\ \A r \in {stopHeartbeat(Self), close(Self), onSocketError(Self),
               onSocketClose(Self),
               rejectPacket(Self, Packet(<<"call">>, 0, "", ""), TRUE)} :
       ~r.timer /\ ~r.heartbeat /\ r.sent = <<>>

\* r is the connection c after _handshakeError(error) and nothing else: one
\* handshake error packet with the next id of c is handed to transport.end,
\* the id counter advances, the heartbeat is stopped.
EndedWithHandshakeError(c, r, error) ==
  /\ ~r.heartbeat /\ ~r.timer
  /\ [r EXCEPT !.heartbeat = c.heartbeat, !.timer = c.timer,
               !.listeners = c.listeners]
       = [c EXCEPT
            !.sent = <<Packet(<<"handshake", "error">>, c.nextPacketId, "",
                              error)>>,
            !.ended = TRUE,
            !.nextPacketId = @ + packetIdDelta(c.role),
            !.allocated = Append(@, c.nextPacketId)]

\* C12: on a server-side connection that has not completed the handshake, a
\* handshake request naming an application the registry does not resolve is
\* answered with a handshake error AppNotFound and the transport is ended;
\* startSession is not called, application and handshakeDone do not change.
UnknownApplicationRefused ==
  (role = "server" /\ ~handshakeDone) =>
    \A packet \in Packets(role) :
      (/\ Len(packet.keys) > 0 /\ packet.keys[1] = "handshake"
       /\ Truthy(packet.target) /\ packet.target \notin Applications) =>
        EndedWithHandshakeError(Self, processPacket(Self, packet, "ok"),
                                "AppNotFound")

\* C12, witness: a server-side connection whose only allocated id is that of
\* a handshake error, ended without any session having been started.
UnknownApplicationRefusedWitness ==
  /\ role = "server" /\ ended /\ ~closed /\ ~handshakeDone
  /\ allocated = <<0>> /\ originated = <<>>
  /\ sessions = 0 /\ sessionOks = 0 /\ application = "null"

\* C13: on a server-side connection that has not completed the handshake, a
\* handshake request for a known application attaches it and calls
\* startSession with the packet's second key as strategy (anonymous when
\* there is none) and the value under that key, and does nothing else.  When
\* startSession reports an error the connection sends the handshake error
\* AuthFailed, ends the transport and changes nothing else (handshakeDone
\* stays as it is, no event is emitted); when it reports success the
\* connection records username and sessionId, sets handshakeDone, emits
\* client and connect and sends handshake ok carrying the sessionId.
SessionCreationDecidesHandshake ==
  /\ (role = "server" /\ ~handshakeDone) =>
       \A packet \in Packets(role) :
         (/\ Len(packet.keys) > 0 /\ packet.keys[1] = "handshake"
          /\ packet.target \in Applications) =>
           processPacket(Self, packet, "ok")
             = [Self EXCEPT
                  !.application = packet.target,
                  !.sessions = @ + 1,
                  !.dispatched =
                    <<[op |-> "startSession", id |-> packet.id,
                       target |-> packet.target,
                       verb |-> IF Len(packet.keys) >= 2
                                  THEN packet.keys[2] ELSE "anonymous",
                       val |-> packet.val]>>]
  /\ (role = "server" /\ sessions > 0) =>
       /\ LET r == onSessionCreated(Self, "AuthFailed", "null", "null")
          IN /\ EndedWithHandshakeError(Self, r, "AuthFailed")
             /\ ~handshakeDone => ~r.handshakeDone
       /\ \A name \in {"null", "user"} : \A session \in {"S1", "S2"} :
            onSessionCreated(Self, "", name, session)
              = [Self EXCEPT
                   !.username = name,
                   !.sessionId = session,
                   !.handshakeDone = TRUE,
                   !.completions = @ + 1,
                   !.emitted = <<[name |-> "client", arg |-> session],
                                 [name |-> "connect", arg |-> ""]>>,
                   !.sent = <<Packet(<<"handshake", "ok">>, nextPacketId, "",
                                     session)>>,
                   !.nextPacketId = @ + packetIdDelta(role),
                   !.allocated = Append(@, nextPacketId)]

\* C13, witness: a server-side connection opened by one successful session
\* creation for a login request, its handshake ok being the only packet it
\* has built.
SessionCreatedWitness ==
  /\ role = "server" /\ handshakeDone /\ Usable
  /\ sessionOks = 1 /\ completions = 1 /\ sessions = 0
  /\ username = "user" /\ sessionId = "S1" /\ application = "app"
  /\ allocated = <<0>>

\* C14: on a client-side connection that has not completed the handshake, a
\* handshake response whose id has the continuation of handshake() pending
\* invokes it with (null, sessionId) when it carries ok, whatever the
\* sessionId, and then handshakeDone is true and sessionId is the value
\* sent; invokes it with the error when it carries error, and handshakeDone
\* stays false; and is rejected fatally, the continuation not being invoked,
\* when it carries neither.
HandshakeResponseFulfilsContinuation ==
  (role = "client" /\ ~handshakeDone) =>
    \A packet \in Packets(role) :
      (/\ Len(packet.keys) > 0 /\ packet.keys[1] = "handshake"
       /\ ~Truthy(packet.target)
       /\ packet.id \in DOMAIN callbacks
       /\ callbacks[packet.id].kind = "handshake") =>
        LET r == processPacket(Self, packet, "ok")
        IN /\ packet.keys = <<"handshake", "ok">> =>
                /\ r.fired = <<[id |-> packet.id, kind |-> "handshake",
                                error |-> "", value |-> packet.val]>>
                /\ r.handshakeDone
                /\ r.sessionId = packet.val
                /\ r.ended = ended
           /\ packet.keys = <<"handshake", "error">> =>
                /\ r.fired = <<[id |-> packet.id, kind |-> "handshake",
                                error |-> packet.val, value |-> ""]>>
                /\ ~r.handshakeDone
                /\ r.ended = ended
           /\ packet.keys = <<"handshake">> =>
                FatallyRejected(Self, r, packet)

\* C15: a handshake response whose id has no continuation registered is
\* reported with packetRejected and not processed further: handshakeDone,
\* application, sessionId and the registry are unchanged and no continuation
\* is invoked.
UnmatchedHandshakeResponseRejected ==
  \A packet \in Packets(role) :
    (/\ Len(packet.keys) > 0 /\ packet.keys[1] = "handshake"
     /\ ~Truthy(packet.target)
     /\ packet.id \notin DOMAIN callbacks) =>
      LET r == processPacket(Self, packet, "ok")
      IN /\ r.rejected # <<>>
         /\ \A i \in DOMAIN r.rejected : r.rejected[i] = packet
         /\ r.handshakeDone = handshakeDone
         /\ r.application = application
         /\ r.sessionId = sessionId
         /\ r.callbacks = callbacks
         /\ r.fired = <<>>

\* C16: after the handshake, a callback ok for a pending inspectInterface(name)
\* constructs a RemoteProxy over the methods it carries and stores it as the
\* proxy of name; when a proxy of name is cached, a further
\* inspectInterface(name), once answered, leaves that same proxy in the
\* cache; a callback error passes the error on and stores no proxy.
InspectCachesProxy ==
  handshakeDone =>
    /\ \A packet \in Packets(role) :
         (/\ Len(packet.keys) > 0 /\ packet.keys[1] = "callback"
          /\ packet.id \in DOMAIN callbacks
          /\ callbacks[packet.id].kind = "inspect") =>
           LET r == processPacket(Self, packet, "ok")
               name == callbacks[packet.id].arg
           IN /\ packet.keys = <<"callback", "ok">> =>
                   {q \in r.remoteProxies : q.interface = name}
                     = {RemoteProxy(packet.id, name, packet.val)}
              /\ packet.keys = <<"callback", "error">> =>
                   /\ r.remoteProxies = remoteProxies
                   /\ r.fired = <<[id |-> packet.id, kind |-> "inspect",
                                   error |-> packet.val, value |-> ""]>>
    /\ \A proxy \in remoteProxies :
         LET asked == inspectInterface(Self, proxy.interface)
             answered ==
               processPacket(asked,
                             Packet(<<"callback", "ok">>, nextPacketId, "",
                                    proxy.methods),
                             "ok")
         IN proxy \in answered.remoteProxies

\* C17: once the transport has been ended or has closed, neither a
\* startSession callback that comes late nor an incoming packet sets
\* handshakeDone, attaches an application, calls into the application or the
\* server, emits client or connect, invokes a continuation or sends a packet.
ClosedIsTerminal ==
  (ended \/ closed) =>
    LET Inert(r) ==
          /\ r.handshakeDone = handshakeDone
          /\ r.application = application
          /\ r.dispatched = <<>>
          /\ r.fired = <<>>
          /\ r.sent = <<>>
          /\ \A i \in DOMAIN r.emitted :
               r.emitted[i].name \notin {"client", "connect"}
    IN /\ sessions > 0 =>
            \A error \in {"", "AuthFailed"} :
              Inert(onSessionCreated(Self, error, "user", "S1"))
       /\ \A packet \in Packets(role) : \A outcome \in Outcomes(packet) :
            Inert(processPacket(Self, packet, outcome))

\* C18: parse(stringify(v)) is v for every value v built from null,
\* booleans, integers, strings (single quotes and backslashes included) and
\* arrays and mappings of these (keys that are not identifier names
\* included).
CodecRoundTrip == stage = "parsed" => output = input

\* C19: after the handshake, a call packet with no argument value under its
\* verb key is answered with one callback error InvalidSignature carrying
\* the id of the call, the application is not called and nothing else
\* changes but the id counter; when the application's callMethod throws, a
\* callback error InternalApiError carrying the id of the call is the last
\* packet sent (the only one when callMethod had not answered before) and
\* the exception leaves the handler.
CallErrorsAnswered ==
  handshakeDone =>
    \A packet \in Packets(role) : \A outcome \in Outcomes(packet) :
      (Len(packet.keys) > 0 /\ packet.keys[1] = "call") =>
        LET r == processPacket(Self, packet, outcome)
            Reply(error) ==
              Packet(<<"callback", "error">>, packet.id, "", error)
        IN /\ ~Truthy(packet.val) =>
                r = [Self EXCEPT
                       !.sent = <<Reply("InvalidSignature")>>,
                       !.nextPacketId = @ + packetIdDelta(role),
                       !.allocated = Append(@, nextPacketId)]
           /\ (Truthy(packet.val) /\ application # "null"
               /\ outcome \in {"throw", "okThenThrow"}) =>
                /\ r.sent # <<>>
                /\ r.sent[Len(r.sent)] = Reply("InternalApiError")
                /\ outcome = "throw" => Len(r.sent) = 1
                /\ r.thrown = "Error"
                /\ Len(r.dispatched) = 1
                /\ r.dispatched[1].op = "callMethod"

\* C19, witness: an open connection with an application attached and a
\* continuation pending, on which a call whose handler throws is answered
\* and the exception raised again.
CallHandlerThrowsWitness ==
  /\ handshakeDone /\ Usable /\ application # "null"
  /\ DOMAIN callbacks # {}
  /\ processPacket(Self,
                   Packet(<<"call", "method">>, -packetIdDelta(role),
                          "iface", "args"),
                   "throw").thrown = "Error"

\* C20: after the handshake a callback packet either resolves the
\* continuation pending under its id (the entry is removed, the continuation
\* is invoked with the ok results or the error, nothing is rejected) or is
\* rejected without closing (one packetRejected, the registry unchanged, no
\* continuation invoked, the transport not ended).
CallbackResolvesOrRejects ==
  handshakeDone =>
    \A packet \in Packets(role) :
      (Len(packet.keys) > 0 /\ packet.keys[1] = "callback") =>
        LET r == processPacket(Self, packet, "ok")
            id == packet.id
        IN \/ /\ id \in DOMAIN callbacks
              /\ r.callbacks = Delete(callbacks, id)
              /\ r.fired = <<[id |-> id, kind |-> callbacks[id].kind,
                              error |-> PacketError(packet),
                              value |-> PacketOk(packet)]>>
              /\ r.rejected = <<>>
              /\ r.ended = ended
           \/ /\ r.rejected = <<packet>>
              /\ r.emitted = <<PacketRejected>>
              /\ r.callbacks = callbacks
              /\ r.fired = <<>>
              /\ r.ended = ended

\* C21: on a server-side connection the transport's close emits disconnect
\* only if a connect has been emitted before (connect is emitted by the
\* completion step, which completions counts), and once the transport has
\* closed (disconnect has been emitted) a startSession callback emits no
\* connect.
DisconnectOnlyAfterConnect ==
  role = "server" =>
    LET Emits(r, name) == \E i \in DOMAIN r.emitted : r.emitted[i].name = name
    IN /\ (~closed /\ Emits(onSocketClose(Self), "disconnect")) =>
            completions > 0
       /\ (closed /\ sessions > 0) =>
            \A error \in {"", "AuthFailed"} :
              ~Emits(onSessionCreated(Self, error, "user", "S1"), "connect")

\* C22: for a call packet received after the handshake, at most one callback
\* packet carrying the id of the call is sent, whatever the handler does.
OneCallbackPerCall ==
  handshakeDone =>
    \A packet \in Packets(role) : \A outcome \in HandlerOutcomes :
      (Len(packet.keys) > 0 /\ packet.keys[1] = "call") =>
        LET r == processPacket(Self, packet, outcome)
        IN Cardinality({i \in DOMAIN r.sent :
                          /\ Len(r.sent[i].keys) > 0
                          /\ r.sent[i].keys[1] = "callback"
                          /\ r.sent[i].id = packet.id}) <= 1

\* The methods whose continuations a response of a given kind answers.
AnsweredBy(packetKind) ==
  CASE packetKind = "pong" -> {"ping"}
    [] packetKind = "callback" -> {"call", "inspect"}
    [] packetKind = "handshake" -> {"handshake"}
    [] OTHER -> {}

\* C23: a packet invokes only a continuation of the kind it answers: a pong
\* one registered by ping, a callback one registered by callMethod or
\* inspectInterface, a handshake response one registered by handshake; and
\* a continuation of another kind pending under the packet's id stays in the
\* registry.
ContinuationResolvedByMatchingKind ==
  \A packet \in Packets(role) : \A outcome \in Outcomes(packet) :
    Len(packet.keys) > 0 =>
      LET r == processPacket(Self, packet, outcome)
          answered == AnsweredBy(packet.keys[1])
      IN /\ \A i \in DOMAIN r.fired : r.fired[i].kind \in answered
         /\ \A id \in DOMAIN callbacks :
              callbacks[id].kind \notin answered =>
                /\ id \in DOMAIN r.callbacks
                /\ r.callbacks[id] = callbacks[id]

\* C24: the completion callback of one connection attempt is invoked at
\* most once, and exactly once when the attempt has run to its end: with
\* (error) when connecting failed, with (error, connection) when an
\* inspectInterface failed, however many did, and otherwise with (null,
\* connection, api), api giving every name asked for its proxy; also when
\* the completion callback throws.
CompletionCalledOnce ==
  LET a == attempt
      failed == {i \in DOMAIN a.promises : a.promises[i] = "rejected"}
      finished ==
        \/ a.phase = "failed"
        \/ /\ a.phase = "inspecting"
           /\ \A i \in DOMAIN a.promises : a.promises[i] # "pending"
           /\ a.all = "fulfilled" => a.thenRan
           /\ chainRejected(a) => a.catchRan
  IN /\ Len(a.calls) <= 1
     /\ finished => Len(a.calls) = 1
     /\ \A k \in DOMAIN a.calls :
          IF a.phase = "failed"
            THEN a.calls[k] = [nargs |-> 1, error |-> "ConnectError",
                               api |-> {}]
          ELSE IF failed # {}
            THEN a.calls[k] = [nargs |-> 2, error |-> "InspectError",
                               api |-> {}]
          ELSE /\ a.calls[k].nargs = 3
               /\ a.calls[k].error = ""
               /\ {e.name : e \in a.calls[k].api}
                    = {a.interfaces[i] : i \in DOMAIN a.interfaces}
               /\ \A e \in a.calls[k].api :
                    /\ e.proxy \in DOMAIN a.interfaces
                    /\ a.interfaces[e.proxy] = e.name

=============================================================================
